---- MODULE Spec2Model ----
(***************************************************************************)
(* The layout pipeline of layout-engine-rust/src/lib.rs: compute_layout,   *)
(* topological_sort, assign_positions, route_edges and calculate_bounds.   *)
(* One call of compute_layout is one behaviour; pc is the position in it.  *)
(***************************************************************************)
EXTENDS Integers, Sequences, FiniteSets, TLC

\* ---------------------------------------------------------------- bounds
\* Spec: many graphs, every node auto-sized, default configuration.
MaxNodes == 3
MaxEdges == 3
\* SmallSpec: few graphs, every rearrangement of each examined.
SmallMaxNodes == 3
SmallMaxEdges == 3
\* FairSpec: behaviours checked to their end.
FairMaxNodes == 3
FairMaxEdges == 2
\* GeoSpec: few graphs, heterogeneous node sizes, spacings and flows.
GeoMaxNodes == 2
GeoMaxEdges == 2

\* ------------------------------------------------------------ strings
\* Node ids are Rust Strings; Vec<String>::sort orders them by their bytes.
IdPool == <<"a", "b", "c", "ab", "bc", "d">>

\* An id that no node list of the model holds.
Unknown == "zz"

Utf8(s) ==
    CASE s = "a"  -> <<97>>
      [] s = "b"  -> <<98>>
      [] s = "c"  -> <<99>>
      [] s = "d"  -> <<100>>
      [] s = "ab" -> <<97, 98>>
      [] s = "bc" -> <<98, 99>>
      [] s = "zz" -> <<122, 122>>

RECURSIVE LexLess(_, _)
LexLess(s, t) ==
    IF s = <<>> THEN t # <<>>
    ELSE IF t = <<>> THEN FALSE
    ELSE IF Head(s) < Head(t) THEN TRUE
    ELSE IF Head(s) > Head(t) THEN FALSE
    ELSE LexLess(Tail(s), Tail(t))

StrLess(s, t) == LexLess(Utf8(s), Utf8(t))

RECURSIVE InsertSorted(_, _)
InsertSorted(x, sorted) ==
    IF sorted = <<>> THEN <<x>>
    ELSE IF StrLess(x, Head(sorted)) THEN <<x>> \o sorted
    ELSE <<Head(sorted)>> \o InsertSorted(x, Tail(sorted))

RECURSIVE SortRec(_, _)
SortRec(v, acc) ==
    IF v = <<>> THEN acc ELSE SortRec(Tail(v), InsertSorted(Head(v), acc))

\* Variant: a sort that leaves the order as it finds it.
SortUnchanged(v) == v

\* Vec<String>::sort()
Sort(v) == SortRec(v, <<>>)

\* ------------------------------------------------------------ helpers
Min(x, y) == IF x < y THEN x ELSE y
Max(x, y) == IF x > y THEN x ELSE y

Range(v) == {v[k] : k \in 1..Len(v)}

\* Rust's integer division truncates toward zero.
TruncDiv(x, y) == IF x >= 0 THEN x \div y ELSE -((-x) \div y)

\* Every ordering of a finite set, as sequences.
Orderings(S) ==
    {v \in [1..Cardinality(S) -> S] : \A x \in S : \E k \in 1..Cardinality(S) : v[k] = x}

\* Every rearrangement of a sequence.
Rearrangements(v) ==
    {[k \in 1..Len(v) |-> v[p[k]]] : p \in Orderings(1..Len(v))}

RECURSIVE SumLens(_)
SumLens(vs) == IF vs = <<>> THEN 0 ELSE Len(Head(vs)) + SumLens(Tail(vs))

RECURSIVE Flatten(_)
Flatten(vs) == IF vs = <<>> THEN <<>> ELSE Head(vs) \o Flatten(Tail(vs))

\* ------------------------------------------------- topological_sort
NodeIds(nodes) == {nodes[k].id : k \in 1..Len(nodes)}

\* lines 184-191: both maps hold a key for every node.
EmptyAdj(nodes) == [id \in NodeIds(nodes) |-> <<>>]

ZeroInDegree(nodes) == [id \in NodeIds(nodes) |-> 0]

\* Variant: only the `from` endpoint is checked.
EdgeErrorFromOnly(in_deg, edge) ==
    IF edge.from \notin DOMAIN in_deg
    THEN [kind |-> "from", id |-> edge.from]
    ELSE [kind |-> "none", id |-> ""]

\* lines 196-201: the two contains_key checks, `from` first.
EdgeError(in_deg, edge) ==
    IF edge.from \notin DOMAIN in_deg
    THEN [kind |-> "from", id |-> edge.from]
    ELSE IF edge.to \notin DOMAIN in_deg
    THEN [kind |-> "to", id |-> edge.to]
    ELSE [kind |-> "none", id |-> ""]

\* Variant: the in-degree is set, not incremented, so parallel edges count once.
BuildEdgeOnce(a, in_deg, edge) ==
    IF edge.from \notin DOMAIN a \/ edge.to \notin DOMAIN in_deg
    THEN [panic |-> TRUE, adj |-> a, in_degree |-> in_deg]
    ELSE [panic |-> FALSE,
          adj |-> [a EXCEPT ![edge.from] = Append(@, edge.to)],
          in_degree |-> [in_deg EXCEPT ![edge.to] = 1]]

\* lines 203-204: push the target, count the edge; unwrap() panics on a
\* missing key.
BuildEdge(a, in_deg, edge) ==
    IF edge.from \notin DOMAIN a \/ edge.to \notin DOMAIN in_deg
    THEN [panic |-> TRUE, adj |-> a, in_degree |-> in_deg]
    ELSE [panic |-> FALSE,
          adj |-> [a EXCEPT ![edge.from] = Append(@, edge.to)],
          in_degree |-> [in_deg EXCEPT ![edge.to] = @ + 1]]

\* lines 209-213: in_degree.iter() visits the zero-degree keys in the
\* HashMap's order, which is any order.
HashOrders(in_deg) == Orderings({id \in DOMAIN in_deg : in_deg[id] = 0})

\* lines 224-226: the adjacency slots the nested loops visit, in order.
\* Slot <<n, j>> is the j-th entry of adj[n]; line 203 pushes one per edge.
RECURSIVE Visits(_, _)
Visits(a, layer) ==
    IF layer = <<>> THEN <<>>
    ELSE LET n == Head(layer)
         IN  (IF n \in DOMAIN a
              THEN [j \in 1..Len(a[n]) |-> [slot |-> <<n, j>>, to |-> a[n][j]]]
              ELSE <<>>)
             \o Visits(a, Tail(layer))

\* Variant: a neighbor is pushed on its first decrement, whatever its degree.
RelaxEager(st, neighbor) ==
    LET degree == st.in_degree[neighbor]
        push   == neighbor \notin st.seen
    IN  [in_degree  |-> [st.in_degree EXCEPT ![neighbor] = degree - 1],
         next_layer |-> IF push THEN Append(st.next_layer, neighbor)
                        ELSE st.next_layer,
         seen       |-> IF push THEN st.seen \cup {neighbor} ELSE st.seen,
         underflow  |-> st.underflow \/ degree = 0]

\* lines 227-233: one decrement. usize subtraction at 0 overflows: it
\* panics when overflow checks are on and wraps to usize::MAX when they
\* are off; -1 stands for usize::MAX (the same residue modulo 2^32).
Relax(st, neighbor) ==
    LET degree == st.in_degree[neighbor]
        push   == degree - 1 = 0 /\ neighbor \notin st.seen
    IN  [in_degree  |-> [st.in_degree EXCEPT ![neighbor] = degree - 1],
         next_layer |-> IF push THEN Append(st.next_layer, neighbor)
                        ELSE st.next_layer,
         seen       |-> IF push THEN st.seen \cup {neighbor} ELSE st.seen,
         underflow  |-> st.underflow \/ degree = 0]

RECURSIVE RelaxAll(_, _)
RelaxAll(st, visits) ==
    IF visits = <<>> THEN st
    ELSE RelaxAll(Relax(st, Head(visits).to), Tail(visits))

\* lines 221-236: one pass of the while body over current_layer.
ProcessLayer(a, in_deg, layer) ==
    RelaxAll([in_degree |-> in_deg, next_layer |-> <<>>, seen |-> {},
              underflow |-> FALSE],
             Visits(a, layer))

\* Variant: the emitted layers are kept and the unlayered nodes appended
\* as one sorted layer.
AllNodesKeepLayers(nodes, ls) ==
    IF SumLens(ls) # Len(nodes)
    THEN LET rest == SelectSeq([k \in 1..Len(nodes) |-> nodes[k].id],
                               LAMBDA id : id \notin Range(Flatten(ls)))
         IN  Append(ls, Sort(rest))
    ELSE ls

\* lines 243-252: fewer emitted nodes than nodes means a cycle, and then
\* every node goes into one sorted layer.
CycleFallback(nodes, ls) ==
    IF SumLens(ls) # Len(nodes)
    THEN << Sort([k \in 1..Len(nodes) |-> nodes[k].id]) >>
    ELSE ls

\* lines 194-205 as a whole.
RECURSIVE BuildAll(_, _, _)
BuildAll(a, in_deg, edges) ==
    IF edges = <<>> THEN [err |-> "none", adj |-> a, in_degree |-> in_deg]
    ELSE IF EdgeError(in_deg, Head(edges)).kind # "none"
    THEN [err |-> EdgeError(in_deg, Head(edges)).kind, adj |-> a,
          in_degree |-> in_deg]
    ELSE LET b == BuildEdge(a, in_deg, Head(edges))
         IN  BuildAll(b.adj, b.in_degree, Tail(edges))

\* lines 218-240 as a whole.
RECURSIVE KahnLoop(_, _, _, _)
KahnLoop(a, in_deg, layer, ls) ==
    IF layer = <<>> THEN ls
    ELSE LET r == ProcessLayer(a, in_deg, layer)
         IN  KahnLoop(a, r.in_degree, Sort(r.next_layer), Append(ls, layer))

\* topological_sort as a function of the node list and the edge list.
TopologicalSort(nodes, edges) ==
    LET b == BuildAll(EmptyAdj(nodes), ZeroInDegree(nodes), edges)
    IN  IF b.err # "none" THEN [ok |-> FALSE, layers |-> <<>>]
        ELSE LET order == CHOOSE o \in HashOrders(b.in_degree) : TRUE
             IN  [ok |-> TRUE,
                  layers |-> CycleFallback(nodes,
                      KahnLoop(b.adj, b.in_degree, Sort(order), <<>>))]

\* ------------------------------------------------- assign_positions
\* lines 156-160: the index from id to node.
NodeMap(nodes) ==
    [id \in NodeIds(nodes) |-> nodes[CHOOSE k \in 1..Len(nodes) : nodes[k].id = id]]

\* lines 270-272; a String enters only through its len() and is_empty().
ResolvedWidth(node) ==
    IF node.width > 0 THEN node.width
    ELSE Max(Max(node.label_len, node.name_len), 3) + 4

\* line 273
ResolvedHeight(node) == IF node.height > 0 THEN node.height ELSE 3

\* line 264
Horizontal(config) == config.flow = "east" \/ config.flow = "west"

\* lines 268-298: one NodePosition; layer_idx and node_idx count from 0.
Place(layer_idx, node_idx, node, config) ==
    LET width  == ResolvedWidth(node)
        height == ResolvedHeight(node)
        x == IF Horizontal(config)
             THEN layer_idx * (width + config.node_spacing)
             ELSE node_idx * (width + config.node_spacing)
        y == IF Horizontal(config)
             THEN node_idx * (height + config.rank_spacing)
             ELSE layer_idx * (height + config.rank_spacing)
    IN  [id |-> node.id, x |-> x, y |-> y, width |-> width, height |-> height,
         label_len |-> IF node.label_len # 0 THEN node.label_len
                       ELSE node.name_len]

\* lines 262-302
AssignPositions(ls, node_map, config) ==
    Flatten([li \in 1..Len(ls) |->
                [ni \in 1..Len(ls[li]) |->
                    Place(li - 1, ni - 1, node_map[ls[li][ni]], config)]])

\* ------------------------------------------------------ route_edges
\* lines 308-311
PosMap(positions) ==
    [id \in {positions[k].id : k \in 1..Len(positions)} |->
        positions[CHOOSE k \in 1..Len(positions) : positions[k].id = id]]

\* Variant: always the direct 2-point segment.
RoutePointsDirect(from_pos, to_pos) ==
    << [x |-> from_pos.x + from_pos.width,
        y |-> from_pos.y + TruncDiv(from_pos.height, 2)],
       [x |-> to_pos.x, y |-> to_pos.y + TruncDiv(to_pos.height, 2)] >>

\* lines 328-352
RoutePoints(from_pos, to_pos) ==
    LET start_x == from_pos.x + from_pos.width
        start_y == from_pos.y + TruncDiv(from_pos.height, 2)
        end_x   == to_pos.x
        end_y   == to_pos.y + TruncDiv(to_pos.height, 2)
        mid_x   == start_x + TruncDiv(end_x - start_x, 2)
    IN  IF start_y = end_y
        THEN << [x |-> start_x, y |-> start_y], [x |-> end_x, y |-> end_y] >>
        ELSE << [x |-> start_x, y |-> start_y], [x |-> mid_x, y |-> start_y],
                [x |-> mid_x, y |-> end_y], [x |-> end_x, y |-> end_y] >>

\* lines 313-363: an edge with an endpoint missing from pos_map is skipped.
RECURSIVE RouteEdges(_, _)
RouteEdges(edges, positions) ==
    IF edges = <<>> THEN <<>>
    ELSE LET edge == Head(edges)
             pm   == PosMap(positions)
         IN  (IF edge.from \in DOMAIN pm /\ edge.to \in DOMAIN pm
              THEN << [id |-> edge.id, from |-> edge.from, to |-> edge.to,
                       points |-> RoutePoints(pm[edge.from], pm[edge.to])] >>
              ELSE <<>>)
             \o RouteEdges(Tail(edges), positions)

\* ------------------------------------------------- calculate_bounds
MaxOf(S) == CHOOSE m \in S : \A x \in S : x <= m

Right(p) == p.x + p.width

Bottom(p) == p.y + p.height

Left(p) == p.x

\* Variant: the width is taken from the left edges.
CalculateBoundsOfCorners(positions) ==
    IF positions = <<>> THEN [width |-> 0, height |-> 0]
    ELSE [width |-> Max(MaxOf({Left(positions[k]) : k \in 1..Len(positions)}), 0),
          height |-> Max(MaxOf({Bottom(positions[k]) : k \in 1..Len(positions)}), 0)]

\* lines 368-389: the two iterator maxima, clamped at 0 by max(0).
CalculateBounds(positions) ==
    IF positions = <<>> THEN [width |-> 0, height |-> 0]
    ELSE [width |-> Max(MaxOf({Right(positions[k]) : k \in 1..Len(positions)}), 0),
          height |-> Max(MaxOf({Bottom(positions[k]) : k \in 1..Len(positions)}), 0)]

\* ------------------------------------------------------------ inputs
\* NodeData with both Strings held by their lengths; test_topological_sort's
\* nodes have name "A", label "A" and no explicit size.
AutoShape == [name_len |-> 1, label_len |-> 1, width |-> 0, height |-> 0]

\* An unlabelled auto-sized node with a six-letter name, a 2x1 node, and
\* test_simple_graph's 5x3 node.
GeoShapes ==
    { [name_len |-> 6, label_len |-> 0, width |-> 0, height |-> 0],
      [name_len |-> 1, label_len |-> 1, width |-> 2, height |-> 1],
      [name_len |-> 1, label_len |-> 1, width |-> 5, height |-> 3] }

\* lines 60-68
DefaultConfig == [flow |-> "east", node_spacing |-> 3, rank_spacing |-> 5]

\* lines 51-58: the four flows; node_spacing and rank_spacing are the
\* non-negative integers of a LayoutConfig, small enough that no i32
\* arithmetic on them overflows.
GeoConfigs ==
    { [flow |-> f, node_spacing |-> sp[1], rank_spacing |-> sp[2]] :
        f \in {"east", "west", "south", "north"},
        sp \in {<<0, 0>>, <<1, 2>>, <<3, 5>>} }

FirstIds(n) == {IdPool[k] : k \in 1..Min(n, Len(IdPool))}

\* The orders a node list of n nodes is given in: every order, the pool's
\* order and its reverse, or the pool's order alone.
NodeOrders(n, orders) ==
    CASE orders = "any"  -> Orderings(FirstIds(n))
      [] orders = "ends" -> {[k \in 1..n |-> IdPool[k]],
                             [k \in 1..n |-> IdPool[n + 1 - k]]}
      [] orders = "pool" -> {[k \in 1..n |-> IdPool[k]]}

\* Node lists of n nodes with distinct ids (a Node's id is unique).
NodeLists(n, shapes, orders) ==
    { [k \in 1..n |-> [id |-> o[k], name_len |-> sh[k].name_len,
                       label_len |-> sh[k].label_len, width |-> sh[k].width,
                       height |-> sh[k].height]] :
        o \in NodeOrders(n, orders), sh \in [1..n -> shapes] }

\* What an edge of a graph of n nodes may name: a node, or an unknown id.
Endpoints(n) == [k \in 1..(n + 1) |-> IF k <= n THEN IdPool[k] ELSE Unknown]

EdgeOfCode(n, c, id) ==
    [id |-> id, from |-> Endpoints(n)[(c \div (n + 1)) + 1],
     to |-> Endpoints(n)[(c % (n + 1)) + 1]]

\* Edge lists of len edges over n nodes, self-loops and parallel edges
\* included; one list per multiset of edges.
EdgeLists(n, len) ==
    { [k \in 1..len |-> EdgeOfCode(n, cs[k], k)] :
        cs \in { c \in [1..len -> 0..((n + 1) * (n + 1) - 1)] :
                    \A k \in 1..(len - 1) : c[k] <= c[k + 1] } }

NoError == [kind |-> "none", id |-> ""]

NoResult ==
    [kind |-> "none", nodes |-> <<>>, edges |-> <<>>,
     bounds |-> [width |-> 0, height |-> 0], err |-> NoError]

\* ------------------------------------------------------------- state
VARIABLES
    graph,           \* the GraphData compute_layout is called with
    pc,              \* Idle, Validating, Layering, Positioning, Routing,
                     \* Bounding, Done, Failed, Panicked
    node_map,        \* compute_layout: id -> NodeData
    i,               \* topological_sort: the edge the for loop is at
    adj,             \* topological_sort: id -> targets
    in_degree,       \* topological_sort: id -> count
    current_layer,   \* topological_sort: the frontier
    layers,          \* topological_sort: the layers pushed by the loop
    sorted_layers,   \* compute_layout: what topological_sort returned
    node_positions,  \* compute_layout
    edge_paths,      \* compute_layout
    result,          \* what compute_layout returns
    underflow,       \* history: a counter was decremented at 0
    visited          \* history: the adjacency slots decremented so far

vars ==
    << graph, pc, node_map, i, adj, in_degree, current_layer, layers,
       sorted_layers, node_positions, edge_paths, result, underflow, visited >>

InitWith(max_nodes, max_edges, shapes, configs, orders) ==
    /\ \E n \in 0..max_nodes, len \in 0..max_edges :
         \E nodes \in NodeLists(n, shapes, orders), edges \in EdgeLists(n, len),
            config \in configs :
              graph = [nodes |-> nodes, edges |-> edges, config |-> config]
    /\ pc = "Idle"
    /\ node_map = <<>>
    /\ i = 1
    /\ adj = <<>>
    /\ in_degree = <<>>
    /\ current_layer = <<>>
    /\ layers = <<>>
    /\ sorted_layers = <<>>
    /\ node_positions = <<>>
    /\ edge_paths = <<>>
    /\ result = NoResult
    /\ underflow = FALSE
    /\ visited = <<>>

Init == InitWith(MaxNodes, MaxEdges, {AutoShape}, {DefaultConfig}, "ends")

SmallInit == InitWith(SmallMaxNodes, SmallMaxEdges, {AutoShape}, {DefaultConfig}, "pool")

FairInit == InitWith(FairMaxNodes, FairMaxEdges, {AutoShape}, {DefaultConfig}, "ends")

GeoInit == InitWith(GeoMaxNodes, GeoMaxEdges, GeoShapes, GeoConfigs, "pool")

\* ----------------------------------------------------------- actions
\* lines 147-153: no nodes, an empty result at once.
EmptyGraph ==
    /\ pc = "Idle"
    /\ graph.nodes = <<>>
    /\ result' = [NoResult EXCEPT !.kind = "ok"]
    /\ pc' = "Done"
    /\ UNCHANGED << graph, node_map, i, adj, in_degree, current_layer, layers,
                    sorted_layers, node_positions, edge_paths, underflow,
                    visited >>

\* lines 156-163 and 184-191: the index, then topological_sort's maps.
BeginLayout ==
    /\ pc = "Idle"
    /\ graph.nodes # <<>>
    /\ node_map' = NodeMap(graph.nodes)
    /\ adj' = EmptyAdj(graph.nodes)
    /\ in_degree' = ZeroInDegree(graph.nodes)
    /\ i' = 1
    /\ pc' = "Validating"
    /\ UNCHANGED << graph, current_layer, layers, sorted_layers,
                    node_positions, edge_paths, result, underflow, visited >>

\* lines 196-201 and 163: an unknown endpoint, Err through the `?`.
RejectEdge ==
    /\ pc = "Validating"
    /\ i <= Len(graph.edges)
    /\ EdgeError(in_degree, graph.edges[i]).kind # "none"
    /\ result' = [NoResult EXCEPT !.kind = "err",
                                  !.err = EdgeError(in_degree, graph.edges[i])]
    /\ pc' = "Failed"
    /\ UNCHANGED << graph, node_map, i, adj, in_degree, current_layer, layers,
                    sorted_layers, node_positions, edge_paths, underflow,
                    visited >>

\* lines 203-204
AcceptEdge ==
    /\ pc = "Validating"
    /\ i <= Len(graph.edges)
    /\ EdgeError(in_degree, graph.edges[i]).kind = "none"
    /\ LET b == BuildEdge(adj, in_degree, graph.edges[i])
       IN  /\ adj' = b.adj
           /\ in_degree' = b.in_degree
           /\ pc' = IF b.panic THEN "Panicked" ELSE "Validating"
    /\ i' = i + 1
    /\ UNCHANGED << graph, node_map, current_layer, layers, sorted_layers,
                    node_positions, edge_paths, result, underflow, visited >>

\* lines 208-216: the zero-degree nodes, collected in hash order, sorted.
SeedFrontier ==
    /\ pc = "Validating"
    /\ i > Len(graph.edges)
    /\ \E order \in HashOrders(in_degree) : current_layer' = Sort(order)
    /\ layers' = <<>>
    /\ pc' = "Layering"
    /\ UNCHANGED << graph, node_map, i, adj, in_degree, sorted_layers,
                    node_positions, edge_paths, result, underflow, visited >>

\* lines 218-240: one iteration of the while loop.
KahnStep ==
    /\ pc = "Layering"
    /\ current_layer # <<>>
    /\ LET r == ProcessLayer(adj, in_degree, current_layer)
           v == Visits(adj, current_layer)
       IN  /\ layers' = Append(layers, current_layer)
           /\ in_degree' = r.in_degree
           /\ current_layer' = Sort(r.next_layer)
           /\ underflow' = (underflow \/ r.underflow)
           /\ visited' = visited \o [k \in 1..Len(v) |-> v[k].slot]
           /\ pc' \in IF r.underflow THEN {"Panicked", "Layering"}
                      ELSE {"Layering"}
    /\ UNCHANGED << graph, node_map, i, adj, sorted_layers, node_positions,
                    edge_paths, result >>

\* Variant: a cycle is an error (the fatal cycle policy).
FinishLayeringFatal ==
    /\ pc = "Layering"
    /\ current_layer = <<>>
    /\ sorted_layers' = layers
    /\ pc' = IF SumLens(layers) # Len(graph.nodes) THEN "Failed"
             ELSE "Positioning"
    /\ UNCHANGED << graph, node_map, i, adj, in_degree, current_layer, layers,
                    node_positions, edge_paths, result, underflow, visited >>

\* lines 242-252 and 163: the loop is over, topological_sort returns Ok.
FinishLayering ==
    /\ pc = "Layering"
    /\ current_layer = <<>>
    /\ sorted_layers' = CycleFallback(graph.nodes, layers)
    /\ pc' = "Positioning"
    /\ UNCHANGED << graph, node_map, i, adj, in_degree, current_layer, layers,
                    node_positions, edge_paths, result, underflow, visited >>

\* line 166
Position ==
    /\ pc = "Positioning"
    /\ node_positions' = AssignPositions(sorted_layers, node_map, graph.config)
    /\ pc' = "Routing"
    /\ UNCHANGED << graph, node_map, i, adj, in_degree, current_layer, layers,
                    sorted_layers, edge_paths, result, underflow, visited >>

\* line 169
Route ==
    /\ pc = "Routing"
    /\ edge_paths' = RouteEdges(graph.edges, node_positions)
    /\ pc' = "Bounding"
    /\ UNCHANGED << graph, node_map, i, adj, in_degree, current_layer, layers,
                    sorted_layers, node_positions, result, underflow, visited >>

\* lines 172-178
Bound ==
    /\ pc = "Bounding"
    /\ result' = [kind |-> "ok", nodes |-> node_positions,
                  edges |-> edge_paths,
                  bounds |-> CalculateBounds(node_positions), err |-> NoError]
    /\ pc' = "Done"
    /\ UNCHANGED << graph, node_map, i, adj, in_degree, current_layer, layers,
                    sorted_layers, node_positions, edge_paths, underflow,
                    visited >>

Next ==
    \/ EmptyGraph
    \/ BeginLayout
    \/ RejectEdge
    \/ AcceptEdge
    \/ SeedFrontier
    \/ KahnStep
    \/ FinishLayering
    \/ Position
    \/ Route
    \/ Bound

Spec == Init /\ [][Next]_vars

SmallSpec == SmallInit /\ [][Next]_vars

GeoSpec == GeoInit /\ [][Next]_vars

\* compute_layout is one synchronous call: it keeps running to its return.
FairSpec == FairInit /\ [][Next]_vars /\ WF_vars(Next)

\* ------------------------------------------------- claim vocabulary
Ids == NodeIds(graph.nodes)

EdgeIndexes == 1..Len(graph.edges)

HasUnknownRef ==
    \E k \in EdgeIndexes : graph.edges[k].from \notin Ids \/ graph.edges[k].to \notin Ids

Successors(S) == {graph.edges[k].to : k \in {j \in EdgeIndexes : graph.edges[j].from \in S}}

RECURSIVE ReachWithin(_, _)
ReachWithin(S, steps) ==
    IF steps = 0 THEN {}
    ELSE Successors(S) \cup ReachWithin(Successors(S), steps - 1)

\* A directed cycle: some node reaches itself along one edge or more.
HasCycle == \E n \in Ids : n \in ReachWithin({n}, Len(graph.nodes))

\* topological_sort has returned Ok to compute_layout.
Layered == pc \in {"Positioning", "Routing", "Bounding", "Done"} /\ graph.nodes # <<>>

LayersOf(ls, id) == {k \in 1..Len(ls) : id \in Range(ls[k])}

NoDuplicates(v) == \A j, k \in 1..Len(v) : j # k => v[j] # v[k]

SortedById(v) == \A j, k \in 1..Len(v) : j < k => StrLess(v[j], v[k])

HasParallelEdges ==
    \E j, k \in EdgeIndexes :
        /\ j # k
        /\ graph.edges[j].from = graph.edges[k].from
        /\ graph.edges[j].to = graph.edges[k].to

HasSelfLoop == \E k \in EdgeIndexes : graph.edges[k].from = graph.edges[k].to

EdgePairs == {<<graph.edges[k].from, graph.edges[k].to>> : k \in EdgeIndexes}

\* ------------------------------------------------------------ claims
\* C1: in an acyclic graph whose edges name known nodes (parallel edges
\* included), every node is in exactly one returned layer and every edge's
\* source layer index is strictly less than its target's; nodes {a,b,c}
\* with edges a->b, b->c give the layers [a],[b],[c].
C1_EdgesPointForward ==
    (Layered /\ ~HasCycle) =>
        /\ \A id \in Ids : Cardinality(LayersOf(sorted_layers, id)) = 1
        /\ \A k \in EdgeIndexes :
             \A f \in LayersOf(sorted_layers, graph.edges[k].from),
                t \in LayersOf(sorted_layers, graph.edges[k].to) : f < t
        /\ (Ids = {"a", "b", "c"} /\ Len(graph.edges) = 2
               /\ EdgePairs = {<<"a", "b">>, <<"b", "c">>})
             => sorted_layers = << <<"a">>, <<"b">>, <<"c">> >>

C1_Witness ==
    /\ pc = "Done"
    /\ ~HasCycle
    /\ HasParallelEdges
    /\ Len(sorted_layers) = 3

\* C2 as stated: whenever an edge names an id absent from the node set,
\* compute_layout returns an error and no LayoutResult, whatever the node set.
C2_UnknownRefAlwaysFails ==
    HasUnknownRef => (pc # "Done" /\ result.kind # "ok")

\* C2 amended: with a non-empty node list, an edge naming an absent id
\* keeps the call in validation until it returns the error: no layer,
\* position, path or result is ever produced, and validation cannot be
\* passed.
C2_UnknownRefFailsNonEmpty ==
    (HasUnknownRef /\ graph.nodes # <<>>) =>
        /\ pc \in {"Idle", "Validating", "Failed"}
        /\ pc = "Validating" => i <= Len(graph.edges)
        /\ (pc = "Failed") = (result.kind = "err")
        /\ result.kind \in {"none", "err"}
        /\ result.kind = "err" => result.err.id \notin Ids
        /\ result.nodes = <<>> /\ result.edges = <<>>
        /\ sorted_layers = <<>> /\ node_positions = <<>> /\ edge_paths = <<>>

C2_Witness ==
    /\ pc = "Failed"
    /\ graph.nodes # <<>>
    /\ i > 1
    /\ result.kind = "err"
    /\ result.err.kind = "to"

\* C3 as stated: on a cycle the layers already emitted are kept and the
\* unlayered nodes are appended, sorted, as one final layer.
C3_CycleKeepsEmittedLayers ==
    (Layered /\ HasCycle) =>
        LET rest == Ids \ Range(Flatten(layers))
            last == sorted_layers[Len(sorted_layers)]
        IN  /\ Len(sorted_layers) = Len(layers) + 1
            /\ SubSeq(sorted_layers, 1, Len(layers)) = layers
            /\ Range(last) = rest
            /\ Len(last) = Cardinality(rest)
            /\ SortedById(last)

\* C3 amended: on a cycle layering does not fail; the layers the loop
\* emitted are discarded and the result is one single layer holding every
\* node of the graph, sorted lexicographically by id; the 3-node cycle
\* a->b->c->a gives the single layer [a,b,c].
C3_CycleSingleLayer ==
    /\ (HasCycle /\ ~HasUnknownRef) => pc \notin {"Failed", "Panicked"}
    /\ (Layered /\ HasCycle) =>
        /\ Len(sorted_layers) = 1
        /\ Range(sorted_layers[1]) = Ids
        /\ Len(sorted_layers[1]) = Len(graph.nodes)
        /\ SortedById(sorted_layers[1])
        /\ (Ids = {"a", "b", "c"} /\ Len(graph.edges) = 3
               /\ EdgePairs = {<<"a", "b">>, <<"b", "c">>, <<"c", "a">>})
             => sorted_layers = << <<"a", "b", "c">> >>

C3_Witness ==
    /\ pc = "Done"
    /\ HasCycle
    /\ layers # <<>>
    /\ ~SortedById([k \in 1..Len(graph.nodes) |-> graph.nodes[k].id])
    /\ Len(graph.nodes) = 3

\* C4: every rearrangement of the node list and of the edge list gives the
\* same sequence of layers, each layer sorted lexicographically by id.
C4_OrderIndependent ==
    pc = "Positioning" =>
        /\ \A k \in 1..Len(sorted_layers) : SortedById(sorted_layers[k])
        /\ \A ns \in Rearrangements(graph.nodes), es \in Rearrangements(graph.edges) :
             TopologicalSort(ns, es) = [ok |-> TRUE, layers |-> sorted_layers]

C4_Witness ==
    /\ pc = "Positioning"
    /\ Len(graph.nodes) = 3
    /\ Len(graph.edges) = 3
    /\ ~HasCycle
    /\ Len(sorted_layers) = 2
    /\ Len(sorted_layers[2]) = 2

PathOf(k) == edge_paths[k].points

EastExit(p) == [x |-> p.x + p.width, y |-> p.y + (p.height \div 2)]

EastEntry(p) == [x |-> p.x, y |-> p.y + (p.height \div 2)]

\* C6: under east flow the path of every edge A->B starts at the middle of
\* A's right side and ends at the middle of B's left side; it has 2 points
\* when the two share their y and otherwise the 4 points exit,
\* (mid_x, exit.y), (mid_x, entry.y), entry; consecutive points never
\* differ in both coordinates.
C6_EastPaths ==
    (pc = "Done" /\ graph.config.flow = "east") =>
        /\ graph.nodes # <<>> => Len(edge_paths) = Len(graph.edges)
        /\ result.edges = edge_paths
        /\ \A k \in 1..Len(edge_paths) :
             LET pts   == PathOf(k)
                 exit  == EastExit(PosMap(result.nodes)[graph.edges[k].from])
                 entry == EastEntry(PosMap(result.nodes)[graph.edges[k].to])
             IN  /\ edge_paths[k].id = graph.edges[k].id
                 /\ pts[1] = exit
                 /\ pts[Len(pts)] = entry
                 /\ exit.y = entry.y => Len(pts) = 2
                 /\ exit.y # entry.y =>
                      /\ Len(pts) = 4
                      /\ pts[2].y = exit.y
                      /\ pts[3].y = entry.y
                      /\ pts[2].x = pts[3].x
                 /\ \A j \in 1..(Len(pts) - 1) :
                      pts[j].x = pts[j + 1].x \/ pts[j].y = pts[j + 1].y

C6_Witness ==
    /\ pc = "Done"
    /\ graph.config.flow = "east"
    /\ \E k \in 1..Len(edge_paths) :
         /\ Len(PathOf(k)) = 4
         /\ PathOf(k)[4].x < PathOf(k)[1].x
    /\ \E k \in 1..Len(edge_paths) : Len(PathOf(k)) = 2

EastPositions ==
    AssignPositions(sorted_layers, node_map, [graph.config EXCEPT !.flow = "east"])

SouthPositions ==
    AssignPositions(sorted_layers, node_map, [graph.config EXCEPT !.flow = "south"])

\* C7: under flow west each node's x is the negation of the x the same
\* graph gets under flow east and its y is the same; under flow north each
\* node's y is the negation of its y under flow south and its x is the same.
C7_WestNorthMirror ==
    (pc \in {"Routing", "Bounding", "Done"} /\ graph.nodes # <<>>) =>
        /\ graph.config.flow = "west" =>
             \A k \in 1..Len(node_positions) :
                /\ node_positions[k].x = -EastPositions[k].x
                /\ node_positions[k].y = EastPositions[k].y
        /\ graph.config.flow = "north" =>
             \A k \in 1..Len(node_positions) :
                /\ node_positions[k].y = -SouthPositions[k].y
                /\ node_positions[k].x = SouthPositions[k].x

\* Two rectangles share interior points.
Overlap(p, q) ==
    /\ p.x < q.x + q.width
    /\ q.x < p.x + p.width
    /\ p.y < q.y + q.height
    /\ q.y < p.y + p.height

\* C8: with unique node ids and non-negative spacings, no two distinct
\* nodes of a result have overlapping rectangles.
C8_NoOverlap ==
    (result.kind = "ok" /\ graph.config.node_spacing >= 0
        /\ graph.config.rank_spacing >= 0) =>
        \A j, k \in 1..Len(result.nodes) :
            j # k => ~Overlap(result.nodes[j], result.nodes[k])

Stages ==
    { <<"Idle", "Done">>, <<"Idle", "Validating">>,
      <<"Validating", "Validating">>, <<"Validating", "Failed">>,
      <<"Validating", "Layering">>, <<"Layering", "Layering">>,
      <<"Layering", "Positioning">>, <<"Positioning", "Routing">>,
      <<"Routing", "Bounding">>, <<"Bounding", "Done">> }

StageStep == <<pc, pc'>> \in Stages

\* C9: every call ends in Done with a complete result or in Failed with an
\* error and nothing else; the stages run in the order validating,
\* layering, positioning, routing, bounding and none is entered again once
\* left; Failed is entered from validation only, before any layer,
\* position or path exists.
C9_RunsToCompletion ==
    /\ <>(pc \in {"Done", "Failed"})
    /\ [][StageStep]_vars
    /\ [](pc = "Done" <=> result.kind = "ok")
    /\ [](pc = "Failed" <=> result.kind = "err")
    /\ [](pc = "Failed" =>
            /\ layers = <<>> /\ current_layer = <<>> /\ sorted_layers = <<>>
            /\ node_positions = <<>> /\ edge_paths = <<>>
            /\ result.nodes = <<>> /\ result.edges = <<>>)
    /\ [](pc = "Done" =>
            /\ Len(result.nodes) = Len(graph.nodes)
            /\ graph.nodes # <<>> => Len(result.edges) = Len(graph.edges))

C9_Witness ==
    /\ pc = "Done"
    /\ HasCycle
    /\ Len(layers) = 2
    /\ Len(result.edges) = 2

\* C10: in the Kahn loop no counter is decremented at 0, every adjacency
\* slot (one per edge) is decremented at most once, and no node id is
\* emitted twice, in one layer or in two; cycles, self-loops and parallel
\* edges included.
C10_KahnCounters ==
    /\ ~underflow
    /\ pc # "Panicked"
    /\ NoDuplicates(visited)
    /\ Len(visited) <= Len(graph.edges)
    /\ pc = "Layering" =>
         /\ SumLens([k \in 1..Len(graph.nodes) |-> adj[graph.nodes[k].id]])
              = Len(graph.edges)
         /\ \A id \in Ids : in_degree[id] >= 0
    /\ NoDuplicates(Flatten(layers) \o current_layer)

C10_Witness ==
    /\ pc = "Done"
    /\ HasSelfLoop
    /\ HasParallelEdges
    /\ Len(visited) = 2
    /\ Len(layers) = 1

====
